---- MODULE Spec2Model ----
(***************************************************************************)
(* Model of wxdb/cdec.py: the CDEC station-metadata pipeline.              *)
(*                                                                         *)
(*   CDEC.metadata()            directory fetch, per-station fetch,        *)
(*                              projection to the database columns, insert *)
(*   CDEC.multi_station_info()  one request per station through            *)
(*                              grequests.map(r, size=1), parse, concat    *)
(*                                                                         *)
(* Values are strings.  "NaN" is the pandas missing value, "None" is the   *)
(* Python None (a JSON null, or the result of DF.where(notnull, None)).    *)
(* A table (DataFrame) is [columns |-> set of labels, rows |-> sequence of *)
(* functions over columns]; a Series is a function label -> value.         *)
(***************************************************************************)
EXTENDS Integers, Sequences, FiniteSets, TLC

VARIABLES pc, entry, fields, directory, stids, r, sent, inflight, res,
          df, info, DF, sink, error

vars == <<pc, entry, fields, directory, stids, r, sent, inflight, res,
          df, info, DF, sink, error>>

(* ------------------------------ bounds -------------------------------- *)

\* longest list of station identifiers of a run
MaxStations == 3

\* station identifiers, in directory order
IdPool == <<"A", "B", "C", "D", "E", "F">>

StidLists == { SubSeq(IdPool, 1, n) : n \in 0..MaxStations }

(* --------------------------- program constants ------------------------ *)

\* CDEC.conversion: source field -> database column
conversion ==
    [ LATITUDE     |-> "latitude",
      STATION_ID   |-> "primary_id",
      LONGITUDE    |-> "longitude",
      STATION_NAME |-> "station_name",
      ELEVATION    |-> "elevation",
      AGENCY_NAME  |-> "primary_provider" ]

\* a pool that lets two requests run at once
PoolSize_two == 1 + 1

\* grequests.map(r, size=1): size of the gevent pool
PoolSize == 1

\* the status the parse loop accepts
StatusOK == 200

(* ------------------------------ payloads ------------------------------ *)

Mapped == DOMAIN conversion

\* a fixed order of the field names (the key order of a payload)
FieldOrder == <<"STATION_ID", "LATITUDE", "LONGITUDE", "STATION_NAME",
                "ELEVATION", "AGENCY_NAME", "SENSOR">>

LatOf(s) == IF s = "A" THEN "10" ELSE "30"
LonOf(s) == IF s = "A" THEN "20" ELSE "40"

\* a complete station record, as served for station s
Full(s) ==
    [ STATION_ID   |-> s,
      LATITUDE     |-> LatOf(s),
      LONGITUDE    |-> LonOf(s),
      STATION_NAME |-> "name",
      ELEVATION    |-> "elev",
      AGENCY_NAME  |-> "agency" ]

Restrict(f, S) == [x \in S |-> f[x]]

WithSensor(s, n) ==
    [x \in Mapped \cup {"SENSOR"} |-> IF x = "SENSOR" THEN n ELSE Full(s)[x]]

\* the lists served under the key STATION for station s
StationLists(s) ==
    { <<>>,
      <<Full(s)>>,
      <<[Full(s) EXCEPT !.LATITUDE = "None"]>>,
      <<[Full(s) EXCEPT !.STATION_ID = ""]>>,
      <<Restrict(Full(s), Mapped \ {"STATION_ID"})>>,
      <<Restrict(Full(s), Mapped \ {"LATITUDE", "ELEVATION"})>>,
      <<Restrict(Full(s), {"STATION_ID"})>>,
      <<WithSensor(s, "s1"), WithSensor(s, "s2")>>,
      <<Restrict(Full(s), {"STATION_ID"}), Full(s)>> }

\* A response of the per-station endpoint.  status 0 stands for the None
\* that grequests.map leaves for a request that raised; text is "notjson"
\* (json.loads raises), "nokey" (JSON without the key STATION) or "station"
\* (JSON whose key STATION holds the list STATION).
NoResponse == [status |-> 0, text |-> "notjson", STATION |-> <<>>]

Responses(s) ==
    { NoResponse,
      [status |-> 500, text |-> "notjson", STATION |-> <<>>],
      [status |-> 204, text |-> "station", STATION |-> <<Full(s)>>],
      [status |-> 200, text |-> "notjson", STATION |-> <<>>],
      [status |-> 200, text |-> "nokey",   STATION |-> <<>>] }
    \cup { [status |-> 200, text |-> "station", STATION |-> l] :
              l \in StationLists(s) }

\* a slot of the result list of grequests.map that is not filled yet
Pending == [status |-> -1, text |-> "pending", STATION |-> <<>>]

\* A response of the directory endpoint: the request raised ("neterr"), the
\* text is not JSON, the JSON has no key STATION, or it lists the stations.
Directories ==
    { [kind |-> k, ids |-> <<>>] : k \in {"neterr", "notjson", "nokey"} }
    \cup { [kind |-> "ok", ids |-> l] : l \in StidLists }

NoDirectory == [kind |-> "unset", ids |-> <<>>]

(* ------------------------------ pandas -------------------------------- *)

EmptyTable == [columns |-> {}, rows |-> <<>>]

RECURSIVE UnionDomains(_)
UnionDomains(recs) ==
    IF recs = <<>> THEN {}
    ELSE (DOMAIN Head(recs)) \cup UnionDomains(Tail(recs))

Pad(f, cols) == [c \in cols |-> IF c \in DOMAIN f THEN f[c] ELSE "NaN"]

\* pd.DataFrame(list of dicts): one row per dict, the columns are the
\* union of the keys, a key a dict lacks is NaN
DataFrame(recs) ==
    LET cols == UnionDomains(recs)
    IN  [columns |-> cols,
         rows    |-> [i \in 1..Len(recs) |-> Pad(recs[i], cols)]]

\* requests.Response.__bool__ is Response.ok; None is false
Truthy(rs) == rs.status # 0 /\ rs.status < 400

\* d.iloc[0]: the first row of the frame as a Series (IndexError on an
\* empty frame is the caller's case)
iloc0(d) == d.rows[1]

\* the loop body without the status test of line 96
ParseOne_anyStatus(rs, flds) ==
    IF ~Truthy(rs) THEN <<>>
    ELSE IF rs.text # "station" THEN <<>>
    ELSE LET d == [columns |-> UnionDomains(rs.STATION),
                   rows    |-> [i \in 1..Len(rs.STATION) |->
                                  Pad(rs.STATION[i], UnionDomains(rs.STATION))]]
         IN  IF flds THEN <<d>>
             ELSE IF d.rows = <<>> THEN <<>>
             ELSE <<d.rows[1]>>

\* the loop body appending every record of the station in summary mode
ParseOne_everyRecord(rs, flds) ==
    IF ~Truthy(rs) THEN <<>>
    ELSE IF rs.status # StatusOK THEN <<>>
    ELSE IF rs.text # "station" THEN <<>>
    ELSE LET d == [columns |-> UnionDomains(rs.STATION),
                   rows    |-> [i \in 1..Len(rs.STATION) |->
                                  Pad(rs.STATION[i], UnionDomains(rs.STATION))]]
         IN  IF flds THEN <<d>> ELSE d.rows

\* One iteration of the loop over res (lines 94-106): what it appends to df.
\* In fields mode the frame is appended before d['STATION_ID'][0] is read for
\* the log line, in summary mode d.iloc[0] is; every exception of the try
\* block is swallowed, and what was appended stays.
ParseOne(rs, flds) ==
    IF ~Truthy(rs) THEN <<>>
    ELSE IF rs.status # StatusOK THEN <<>>
    ELSE IF rs.text # "station" THEN <<>>
    ELSE LET d == DataFrame(rs.STATION)
         IN  IF flds THEN <<d>>
             ELSE IF d.rows = <<>> THEN <<>>
             ELSE <<iloc0(d)>>

\* the loop over res, in the order of the requests
RECURSIVE ParseResponses(_, _, _)
ParseResponses(resps, n, flds) ==
    IF n = 0 THEN <<>>
    ELSE ParseResponses(resps, n - 1, flds) \o ParseOne(resps[n], flds)

Max(a, b) == IF a >= b THEN a ELSE b

RECURSIVE MaxRows(_)
MaxRows(frames) ==
    IF frames = <<>> THEN 0
    ELSE Max(Len(Head(frames).rows), MaxRows(Tail(frames)))

\* the field names of cols in key order
RECURSIVE InOrder(_, _)
InOrder(order, cols) ==
    IF order = <<>> THEN <<>>
    ELSE (IF Head(order) \in cols THEN <<Head(order)>> ELSE <<>>)
         \o InOrder(Tail(order), cols)

\* pd.concat(df, axis=1).T.reset_index() on a list of Series (summary
\* mode): every Series is one row, the columns are the union of the labels
\* plus the column 'index' that holds the Series' name, 0
ConcatSeries(ss) ==
    LET cols == UnionDomains(ss)
    IN  [columns |-> cols \cup {"index"},
         rows    |-> [i \in 1..Len(ss) |->
                        [c \in cols \cup {"index"} |->
                            IF c = "index" THEN "0"
                            ELSE IF c \in DOMAIN ss[i] THEN ss[i][c]
                            ELSE "NaN"]]]

\* the rows one frame gives after the transpose: one per column of the
\* frame, holding the column's name under 'index' and the value of record
\* j under the label j
FrameRows(d, k) ==
    LET names  == InOrder(FieldOrder, d.columns)
        labels == {"index"} \cup { ToString(j) : j \in 0..(k - 1) }
    IN  [i \in 1..Len(names) |->
            [l \in labels |->
                IF l = "index" THEN names[i]
                ELSE LET j == CHOOSE j \in 0..(k - 1) : ToString(j) = l
                     IN  IF j + 1 <= Len(d.rows) THEN d.rows[j + 1][names[i]]
                         ELSE "NaN"]]

RECURSIVE AllFrameRows(_, _)
AllFrameRows(frames, k) ==
    IF frames = <<>> THEN <<>>
    ELSE FrameRows(Head(frames), k) \o AllFrameRows(Tail(frames), k)

\* pd.concat(df, axis=1).T.reset_index() on a list of frames (fields
\* mode): the frames are laid side by side on the record number, and the
\* transpose makes every column of every frame a row
ConcatFrames(frames) ==
    LET k == MaxRows(frames)
    IN  [columns |-> {"index"} \cup { ToString(j) : j \in 0..(k - 1) },
         rows    |-> AllFrameRows(frames, k)]

\* line 110
Concat(items, flds) ==
    IF flds THEN ConcatFrames(items) ELSE ConcatSeries(items)

(* ----------------------------- metadata ------------------------------- *)

\* a directory fetch that only fails on a network error
DirectoryFails_netOnly(d) == d.kind = "neterr"

\* lines 127-132: requests.get, json.loads, data['STATION'] or
\* df['STATION_ID'] raises
DirectoryFails(d) == d.kind # "ok" \/ d.ids = <<>>

\* the database columns
Canonical ==
    { conversion[c] : c \in Mapped }
    \cup {"reported_lat", "reported_long", "source", "state", "timezone"}

\* lines 138-140: info[c] raises KeyError for a column info lacks
ProjectFails(t) == \E c \in Mapped : c \notin t.columns

SourceOf(col) == CHOOSE c \in Mapped : conversion[c] = col

\* a projection that copies the latitude into reported_long
ProjectRow_latTwice(row) ==
    [col \in {"latitude", "primary_id", "longitude", "station_name",
              "elevation", "primary_provider", "reported_lat",
              "reported_long", "source", "state", "timezone"} |->
        CASE col = "reported_lat"     -> row["LATITUDE"]
          [] col = "reported_long"    -> row["LATITUDE"]
          [] col = "source"           -> "cdec"
          [] col = "state"            -> "CA"
          [] col = "timezone"         -> "PDT"
          [] col = "latitude"         -> row["LATITUDE"]
          [] col = "longitude"        -> row["LONGITUDE"]
          [] col = "primary_id"       -> row["STATION_ID"]
          [] col = "station_name"     -> row["STATION_NAME"]
          [] col = "elevation"        -> row["ELEVATION"]
          [] col = "primary_provider" -> row["AGENCY_NAME"]]

\* lines 138-150 for one row of info
ProjectRow(row) ==
    [col \in Canonical |->
        CASE col = "reported_lat"  -> row["LATITUDE"]
          [] col = "reported_long" -> row["LONGITUDE"]
          [] col = "source"        -> "cdec"
          [] col = "state"         -> "CA"
          [] col = "timezone"      -> "PDT"
          [] OTHER                 -> row[SourceOf(col)]]

\* line 152: DF.where(pd.notnull(DF), None)
WhereNotNull(row) ==
    [col \in DOMAIN row |-> IF row[col] \in {"NaN", "None"} THEN "None"
                            ELSE row[col]]

\* lines 138-152
Project(t) ==
    [columns |-> Canonical,
     rows    |-> [i \in 1..Len(t.rows) |-> WhereNotNull(ProjectRow(t.rows[i]))]]

(* ------------------------------ actions ------------------------------- *)

Init ==
    /\ pc = "idle"
    /\ entry = "none"
    /\ fields = FALSE
    /\ directory = NoDirectory
    /\ stids = <<>>
    /\ r = <<>>
    /\ sent = 0
    /\ inflight = {}
    /\ res = <<>>
    /\ df = <<>>
    /\ info = EmptyTable
    /\ DF = EmptyTable
    /\ sink = <<>>
    /\ error = ""

\* a caller enters metadata()
CallMetadata ==
    /\ pc = "idle"
    /\ pc' = "directory"
    /\ entry' = "metadata"
    /\ UNCHANGED <<fields, directory, stids, r, sent, inflight, res, df,
                   info, DF, sink, error>>

\* a caller enters multi_station_info(stids, fields)
CallMultiStationInfo(ids, flds) ==
    /\ pc = "idle"
    /\ pc' = "build"
    /\ entry' = "multi"
    /\ stids' = ids
    /\ fields' = flds
    /\ UNCHANGED <<directory, r, sent, inflight, res, df, info, DF, sink,
                   error>>

\* metadata(), lines 127-132: the directory request and its parse; on
\* success multi_station_info is entered with the default fields=False
FetchDirectory(d) ==
    /\ pc = "directory"
    /\ directory' = d
    /\ IF DirectoryFails(d)
       THEN /\ pc' = "raised"
            /\ error' = "DirectoryError"
            /\ UNCHANGED <<stids, fields>>
       ELSE /\ pc' = "build"
            /\ stids' = d.ids
            /\ fields' = FALSE
            /\ UNCHANGED error
    /\ UNCHANGED <<entry, r, sent, inflight, res, df, info, DF, sink>>

\* lines 84-86: one unsent request per station identifier
BuildRequests ==
    /\ pc = "build"
    /\ r' = stids
    /\ res' = [i \in 1..Len(stids) |-> Pending]
    /\ sent' = 0
    /\ pc' = "map"
    /\ UNCHANGED <<entry, fields, directory, stids, inflight, df, info, DF,
                   sink, error>>

\* grequests.map: the next request of the list is spawned once the pool
\* has a free slot
SendRequest ==
    /\ pc = "map"
    /\ sent < Len(r)
    /\ Cardinality(inflight) < PoolSize
    /\ sent' = sent + 1
    /\ inflight' = inflight \cup {sent + 1}
    /\ UNCHANGED <<pc, entry, fields, directory, stids, r, res, df, info, DF,
                   sink, error>>

\* a request in flight ends, with a response or with None
ReceiveResponse(i, rs) ==
    /\ pc = "map"
    /\ i \in inflight
    /\ inflight' = inflight \ {i}
    /\ res' = [res EXCEPT ![i] = rs]
    /\ UNCHANGED <<pc, entry, fields, directory, stids, r, sent, df, info,
                   DF, sink, error>>

\* grequests.map has returned; lines 93-106: the loop over res
ParseLoop ==
    /\ pc = "map"
    /\ sent = Len(r)
    /\ inflight = {}
    /\ df' = ParseResponses(res, Len(res), fields)
    /\ pc' = "concat"
    /\ UNCHANGED <<entry, fields, directory, stids, r, sent, inflight, res,
                   info, DF, sink, error>>

\* line 110: pd.concat raises ValueError on an empty list; otherwise
\* multi_station_info returns the table
ConcatReturn ==
    /\ pc = "concat"
    /\ IF df = <<>>
       THEN /\ pc' = "raised"
            /\ error' = "ValueError"
            /\ UNCHANGED info
       ELSE /\ info' = Concat(df, fields)
            /\ pc' = IF entry = "metadata" THEN "project" ELSE "done"
            /\ UNCHANGED error
    /\ UNCHANGED <<entry, fields, directory, stids, r, sent, inflight, res,
                   df, DF, sink>>

\* metadata(), lines 138-152
ProjectInfo ==
    /\ pc = "project"
    /\ IF ProjectFails(info)
       THEN /\ pc' = "raised"
            /\ error' = "KeyError"
            /\ UNCHANGED DF
       ELSE /\ DF' = Project(info)
            /\ pc' = "insert"
            /\ UNCHANGED error
    /\ UNCHANGED <<entry, fields, directory, stids, r, sent, inflight, res,
                   df, info, sink>>

\* metadata(), line 155: self.db.insert_data(DF, ...)
InsertData ==
    /\ pc = "insert"
    /\ sink' = Append(sink, DF)
    /\ pc' = "done"
    /\ UNCHANGED <<entry, fields, directory, stids, r, sent, inflight, res,
                   df, info, DF, error>>

Next ==
    \/ CallMetadata
    \/ \E ids \in StidLists, flds \in BOOLEAN : CallMultiStationInfo(ids, flds)
    \/ \E d \in Directories : FetchDirectory(d)
    \/ BuildRequests
    \/ SendRequest
    \/ \E i \in inflight : \E rs \in Responses(r[i]) : ReceiveResponse(i, rs)
    \/ ParseLoop
    \/ ConcatReturn
    \/ ProjectInfo
    \/ InsertData

Spec == Init /\ [][Next]_vars

(* ------------------------- terms of the claims ------------------------ *)

\* the response is present, has status 200 and parses to the expected
\* shape: JSON whose key STATION holds a list of at least one record
Succeeds(rs) ==
    rs.status = 200 /\ rs.text = "station" /\ rs.STATION # <<>>

\* the positions of the succeeding stations among the first n, in order
RECURSIVE SucceededIdx(_, _)
SucceededIdx(resps, n) ==
    IF n = 0 THEN <<>>
    ELSE SucceededIdx(resps, n - 1)
         \o (IF Succeeds(resps[n]) THEN <<n>> ELSE <<>>)

\* multi_station_info has returned its table
Returned ==
    \/ pc \in {"project", "insert"}
    \/ pc = "done"
    \/ pc = "raised" /\ error = "KeyError"

\* multi_station_info has raised
MultiRaised == pc = "raised" /\ error = "ValueError"

SomeSucceeds == \E i \in 1..Len(res) : Succeeds(res[i])

\* the row carries every field of the record
RowHolds(row, rec) ==
    \A c \in DOMAIN rec : c \in DOMAIN row /\ row[c] = rec[c]

\* metadata() has ended, by returning or by raising
MetadataEnded == entry = "metadata" /\ pc \in {"done", "raised"}

(* ------------------------------- claims ------------------------------- *)

\* C1: in summary mode, when at least one station succeeds, the call
\* returns and its table has one row per succeeding station, in order, each
\* carrying the first record of that station, and no other row.
C1_OneRowPerSucceedingStation ==
    (~fields /\ (Returned \/ MultiRaised) /\ SomeSucceeds) =>
        /\ Returned
        /\ LET ix == SucceededIdx(res, Len(res))
           IN  /\ Len(info.rows) = Len(ix)
               /\ \A k \in 1..Len(ix) :
                     RowHolds(info.rows[k], res[ix[k]].STATION[1])

\* C1 witness: ids [A, B, C], B fails, the table has the 2 rows of A and C
C1_Witness ==
    /\ ~fields /\ Returned /\ Len(res) = 3
    /\ Succeeds(res[1]) /\ ~Succeeds(res[2]) /\ Succeeds(res[3])
    /\ Len(info.rows) = 2
    /\ info.rows[1]["STATION_ID"] = "A" /\ info.rows[2]["STATION_ID"] = "C"

\* C2: when no station succeeds, multi_station_info raises, in both modes.
C2_RaisesWhenNoneSucceeds ==
    ((Returned \/ MultiRaised) /\ ~SomeSucceeds) => MultiRaised

\* C3: when the directory fetch fails (network error or unparseable
\* payload), metadata() has raised and no per-station request was built or
\* sent.
C3_DirectoryFailureRaisesFirst ==
    (directory.kind \in {"neterr", "notjson", "nokey"}) =>
        /\ pc = "raised"
        /\ r = <<>> /\ sent = 0 /\ inflight = {} /\ res = <<>>

\* C3 witness: the directory payload was not JSON and the run has raised
C3_Witness ==
    entry = "metadata" /\ directory.kind = "notjson" /\ pc = "raised"

\* C4: metadata() raises only when the directory fetch fails or no station
\* succeeds, and then the sink was not called; otherwise it ends by
\* returning, with exactly one call of the sink; the sink is never called
\* before all responses are in.
C4_OnlyTwoFatalConditions ==
    /\ MetadataEnded =>
          IF DirectoryFails(directory) \/ ~SomeSucceeds
          THEN pc = "raised" /\ sink = <<>>
          ELSE pc = "done" /\ Len(sink) = 1
    /\ (sink # <<>>) =>
          /\ Len(sink) = 1
          /\ \A i \in 1..Len(res) : res[i] # Pending

\* C5: whenever at least one station succeeds, metadata() hands the sink a
\* table whose columns are exactly the canonical ones.
C5_CanonicalColumns ==
    (MetadataEnded /\ ~DirectoryFails(directory) /\ SomeSucceeds) =>
        /\ Len(sink) = 1
        /\ sink[1].columns =
              {"primary_id", "latitude", "longitude", "station_name",
               "elevation", "primary_provider", "reported_lat",
               "reported_long", "source", "state", "timezone"}

\* C6: every row handed to the sink has a non-empty primary_id.
C6_NonEmptyIdentifier ==
    \A n \in 1..Len(sink) : \A i \in 1..Len(sink[n].rows) :
        sink[n].rows[i]["primary_id"] \notin {"", "None", "NaN"}

\* C7: in fields mode, a succeeding station with 2 records has both records
\* in the table, as two rows with the same station identifier.
C7_BothRecordsAsRows ==
    (fields /\ Returned) =>
        \A i \in 1..Len(res) :
            (Succeeds(res[i]) /\ Len(res[i].STATION) = 2) =>
                \E j, k \in 1..Len(info.rows) :
                    /\ j # k
                    /\ RowHolds(info.rows[j], res[i].STATION[1])
                    /\ RowHolds(info.rows[k], res[i].STATION[2])
                    /\ info.rows[j]["STATION_ID"] = info.rows[k]["STATION_ID"]

\* C8 as stated: in either mode the returned table has at most N rows.
C8_AtMostNRows ==
    Returned => Len(info.rows) <= Len(stids)

\* C8 as amended: in summary mode the returned table has at most N rows.
C8_AtMostNRowsSummary ==
    (~fields /\ Returned) => Len(info.rows) <= Len(stids)

\* C8 witness: summary mode, a station with 2 records among 2 or more
\* stations, and fewer rows than stations
C8_Witness ==
    /\ ~fields /\ Returned /\ Len(stids) >= 2
    /\ \E i \in 1..Len(res) : Succeeds(res[i]) /\ Len(res[i].STATION) = 2
    /\ Len(info.rows) >= 1 /\ Len(info.rows) < Len(stids)

C10_ReportedEqualsCoordinates ==
    \A n \in 1..Len(sink) : \A i \in 1..Len(sink[n].rows) :
        /\ sink[n].rows[i]["reported_lat"] = sink[n].rows[i]["latitude"]
        /\ sink[n].rows[i]["reported_long"] = sink[n].rows[i]["longitude"]

\* C10 witness: the sink got a row with coordinates and a row whose
\* latitude is the no-value marker
C10_Witness ==
    /\ Len(sink) = 1
    /\ \E i, j \in 1..Len(sink[1].rows) :
          /\ sink[1].rows[i]["latitude"] = "10"
          /\ sink[1].rows[i]["reported_long"] = "20"
          /\ sink[1].rows[j]["latitude"] = "None"
          /\ sink[1].rows[j]["reported_lat"] = "None"

====
